---- MODULE Spec2Model ----
(***************************************************************************)
(* DiscordFS: a hierarchical filesystem stored in a message log.  Every    *)
(* message carries one attachment: a Node block (directory or file inode)  *)
(* or a data block.  The model keeps the log as a map BlockId -> bytes and *)
(* runs every top-level operation of NodeFS against it, byte for byte.     *)
(*                                                                         *)
(* Strings are sequences of UTF-8 bytes; '/' is 47.  u64 values are        *)
(* encoded little-endian on 8 bytes; every value of the model is below     *)
(* 2^31.  BLOCK_SIZE and the 1 << 10 entry slot are scaled down (the       *)
(* derived constants keep the source's formulas).                          *)
(***************************************************************************)
EXTENDS Integers, Sequences, FiniteSets, TLC

(***************************************************************************)
(* Bounds of the model                                                     *)
(***************************************************************************)
\* top-level operations (startups included) in one behaviour
MaxOps == 4
\* messages the log ever hands out an id for
MaxBlocks == 7
\* top-level operations after the startup in a "moved" behaviour
MaxMovedOps == 5
\* top-level operations after the startup in a "names" behaviour
MaxNameOps == 3
\* top-level operations after the startup in a "nested" behaviour
MaxNestedOps == 6

(***************************************************************************)
(* Constants of directory_entry.rs and node.rs                             *)
(***************************************************************************)
BLOCK_INDEX_SIZE == 8
NAME_LEN_SIZE == 8
SIZE_SIZE == 8
KIND_SIZE == 8
\* 1 << 10 in the source
NameSlot == 25
NAME_LEN == NameSlot - BLOCK_INDEX_SIZE - NAME_LEN_SIZE
DIRECTORY_ENTRY_SIZE == NAME_LEN + BLOCK_INDEX_SIZE + NAME_LEN_SIZE
\* 1 << 23 in the source; like it, a multiple of BLOCK_INDEX_SIZE
BLOCK_SIZE == 64
BLOCK_COUNT == (BLOCK_SIZE - KIND_SIZE - SIZE_SIZE - BLOCK_INDEX_SIZE) \div BLOCK_INDEX_SIZE
MAX_FILE_SIZE == BLOCK_SIZE * BLOCK_COUNT
ENTRY_COUNT ==
    (BLOCK_SIZE - KIND_SIZE - SIZE_SIZE - BLOCK_INDEX_SIZE) \div (NAME_LEN + BLOCK_INDEX_SIZE)

\* NodeKind, #[repr(u64)]
Directory == 0
File == 1

\* AES-256 key length and the GCM-SIV tag length
KEY_LEN == 32
TAG_LEN == 16

Slash == 47

(***************************************************************************)
(* Little-endian u64                                                       *)
(***************************************************************************)
U64ToLE(n) ==
    << n % 256, (n \div 256) % 256, (n \div 65536) % 256, (n \div 16777216) % 256,
       0, 0, 0, 0 >>

\* a value above every limit of the model stands for anything >= 2^31
Huge == 2147483647

U64FromLE(b) ==
    IF b[5] # 0 \/ b[6] # 0 \/ b[7] # 0 \/ b[8] # 0 \/ b[4] >= 128
    THEN Huge
    ELSE b[1] + 256 * b[2] + 65536 * b[3] + 16777216 * b[4]

RECURSIVE Flatten(_)
Flatten(ss) == IF Len(ss) = 0 THEN <<>> ELSE Head(ss) \o Flatten(Tail(ss))

\* the one element of a singleton: Only({e : x \in {v}}) is e with x bound to the
\* value of v
Only(S) == CHOOSE x \in S : TRUE

(***************************************************************************)
(* DirectoryEntry                                                          *)
(***************************************************************************)
\* DirectoryEntry::new: no length check
NewEntry(name, block) == [name_len |-> Len(name), name |-> name, block |-> block]

\* DirectoryEntry::set_name panics on a name longer than NAME_LEN
SetNameOk(name) == Len(name) <= NAME_LEN
SetName(entry, name) == [entry EXCEPT !.name = name, !.name_len = Len(name)]

EntryToLeBytes(e) == U64ToLE(e.name_len) \o e.name \o U64ToLE(e.block)
\* the assertion of to_le_bytes
EntryToLeBytesOk(e) == Len(EntryToLeBytes(e)) <= DIRECTORY_ENTRY_SIZE

\* `byte as char` pushed to a String: the UTF-8 encoding of U+0000..U+00FF
ByteAsChar(b) == IF b < 128 THEN <<b>> ELSE << 192 + (b \div 64), 128 + (b % 64) >>

BadDecode == [ok |-> FALSE, entries |-> <<>>]

\* DirectoryEntry::from_le_bytes; every expect/assert of it gives BadDecode
RECURSIVE EntriesFromLeBytes(_)
EntriesFromLeBytes(bytes) ==
    IF Len(bytes) = 0 THEN [ok |-> TRUE, entries |-> <<>>]
    ELSE IF Len(bytes) < NAME_LEN_SIZE THEN BadDecode
    ELSE Only({
      IF name_len > NAME_LEN THEN BadDecode
      ELSE IF Len(bytes) < NAME_LEN_SIZE + name_len THEN BadDecode
      ELSE Only({
        IF name_len # Len(name) THEN BadDecode
        ELSE IF Len(bytes) < NAME_LEN_SIZE + name_len + BLOCK_INDEX_SIZE THEN BadDecode
        ELSE Only({
          IF ~rest.ok THEN BadDecode
          ELSE [ok |-> TRUE,
                entries |->
                  <<[name_len |-> name_len, name |-> name,
                     block |-> U64FromLE(SubSeq(bytes, NAME_LEN_SIZE + name_len + 1,
                                                NAME_LEN_SIZE + name_len + BLOCK_INDEX_SIZE))]>>
                  \o rest.entries]
          : rest \in {EntriesFromLeBytes(
                        SubSeq(bytes, NAME_LEN_SIZE + name_len + BLOCK_INDEX_SIZE + 1,
                               Len(bytes)))} })
        : name \in {Flatten([i \in 1..name_len |-> ByteAsChar(bytes[NAME_LEN_SIZE + i])])} })
      : name_len \in {U64FromLE(SubSeq(bytes, 1, NAME_LEN_SIZE))} })

(***************************************************************************)
(* Node                                                                    *)
(***************************************************************************)
NewNode(kind, parent_block_id) ==
    [kind |-> kind, size |-> 0, parent_block_id |-> parent_block_id,
     blocks |-> <<>>, entries |-> <<>>]

ContainsEntry(node, name) == \E i \in 1..Len(node.entries) : node.entries[i].name = name

IsFull(node) == node.size = ENTRY_COUNT

\* position of the first entry called name (the entry that iter().find and
\* iter().position give), 0 when there is none
EntryPos(node, name) ==
    IF \E i \in 1..Len(node.entries) : node.entries[i].name = name
    THEN CHOOSE i \in 1..Len(node.entries) :
            /\ node.entries[i].name = name
            /\ \A j \in 1..(i - 1) : node.entries[j].name # name
    ELSE 0

\* Node::get_directory_entry(name).block_id(), for a name the node contains
EntryBlock(node, name) == node.entries[EntryPos(node, name)].block

\* a block count check that stops one block short of BLOCK_COUNT
PushDataBlockOkOneShort(node) ==
    /\ node.kind = File
    /\ Len(node.blocks) < BLOCK_COUNT - 1
    /\ node.size <= MAX_FILE_SIZE
PushDataBlockOk(node) ==
    /\ node.kind = File
    /\ Len(node.blocks) < BLOCK_COUNT
    /\ node.size <= MAX_FILE_SIZE
\* a push that lists the block and leaves the size field alone
PushDataBlockKeepsSize(node, block, size) ==
    [node EXCEPT !.blocks = Append(@, block)]
PushDataBlock(node, block, size) ==
    [node EXCEPT !.blocks = Append(@, block), !.size = @ + size]

PushDirectoryEntryOk(node) == node.kind = Directory /\ node.size < ENTRY_COUNT
\* a push that appends the entry and leaves the size field alone
PushDirectoryEntryKeepsSize(node, name, block) ==
    [node EXCEPT !.entries = Append(@, NewEntry(name, block))]
PushDirectoryEntry(node, name, block) ==
    [node EXCEPT !.entries = Append(@, NewEntry(name, block)), !.size = @ + 1]

RenameDirectoryEntryOk(node, old, new) ==
    node.kind = Directory /\ ContainsEntry(node, old) /\ SetNameOk(new)
RenameDirectoryEntry(node, old, new) ==
    [node EXCEPT !.entries[EntryPos(node, old)] = SetName(@, new)]

DeleteDirectoryEntryOk(node, name) ==
    node.kind = Directory /\ ContainsEntry(node, name) /\ node.size >= 1
DeleteDirectoryEntry(node, name) ==
    [node EXCEPT !.entries = [i \in 1..(Len(@) - 1) |->
                                 IF i < EntryPos(node, name) THEN @[i] ELSE @[i + 1]],
                 !.size = @ - 1]

NodeToBytes(node) ==
    U64ToLE(node.kind) \o U64ToLE(node.size) \o U64ToLE(node.parent_block_id)
    \o (IF node.kind = Directory
        THEN Flatten([i \in 1..Len(node.entries) |-> EntryToLeBytes(node.entries[i])])
        ELSE Flatten([i \in 1..Len(node.blocks) |-> U64ToLE(node.blocks[i])]))

HeaderSize == KIND_SIZE + SIZE_SIZE + BLOCK_INDEX_SIZE

\* the assertions of Node::to_bytes and of DirectoryEntry::to_le_bytes
NodeToBytesOk(node) ==
    /\ node.kind = Directory =>
          \A i \in 1..Len(node.entries) : EntryToLeBytesOk(node.entries[i])
    /\ Len(NodeToBytes(node)) <= BLOCK_SIZE

BadNode == [ok |-> FALSE, node |-> NewNode(Directory, 0)]

\* the header fields of a block of at least HeaderSize bytes
HeaderOf(bytes) ==
    [kind |-> U64FromLE(SubSeq(bytes, 1, KIND_SIZE)),
     size |-> U64FromLE(SubSeq(bytes, KIND_SIZE + 1, KIND_SIZE + SIZE_SIZE)),
     parent |-> U64FromLE(SubSeq(bytes, KIND_SIZE + SIZE_SIZE + 1, HeaderSize)),
     content |-> SubSeq(bytes, HeaderSize + 1, Len(bytes))]

\* Node::from_bytes; every panic of it gives BadNode
NodeFromBytes(bytes) ==
    IF Len(bytes) > BLOCK_SIZE \/ Len(bytes) < HeaderSize THEN BadNode
    ELSE Only({
      IF h.kind \notin {Directory, File} THEN BadNode
      ELSE IF h.kind = Directory THEN
        Only({
          IF ~dec.ok \/ Len(dec.entries) # h.size THEN BadNode
          ELSE [ok |-> TRUE,
                node |-> [kind |-> Directory, size |-> h.size, parent_block_id |-> h.parent,
                          blocks |-> <<>>, entries |-> dec.entries]]
          : dec \in {EntriesFromLeBytes(h.content)} })
      ELSE
        IF h.size > MAX_FILE_SIZE THEN BadNode
        ELSE [ok |-> TRUE,
              node |-> [kind |-> File, size |-> h.size, parent_block_id |-> h.parent,
                        blocks |-> [i \in 1..(Len(h.content) \div BLOCK_INDEX_SIZE) |->
                                      U64FromLE(SubSeq(h.content,
                                                       (i - 1) * BLOCK_INDEX_SIZE + 1,
                                                       i * BLOCK_INDEX_SIZE))],
                        entries |-> <<>>]]
      : h \in {HeaderOf(bytes)} })

(***************************************************************************)
(* Strings                                                                 *)
(***************************************************************************)
EndsWithSlash(s) == Len(s) > 0 /\ s[Len(s)] = Slash
StartsWithSlash(s) == Len(s) > 0 /\ s[1] = Slash

\* str::rfind('/') on s[..bound]: 1-based position of the last '/', 0 for None
RFindSlash(s, bound) ==
    IF \E i \in 1..bound : s[i] = Slash
    THEN CHOOSE i \in 1..bound : s[i] = Slash /\ \A j \in (i + 1)..bound : s[j] # Slash
    ELSE 0

\* position of the first '/' byte, 0 for None
FindSlash(s) ==
    IF \E i \in 1..Len(s) : s[i] = Slash
    THEN CHOOSE i \in 1..Len(s) : s[i] = Slash /\ \A j \in 1..(i - 1) : s[j] # Slash
    ELSE 0

\* UTF-8 continuation bytes carry no char of their own
IsContinuation(b) == b >= 128 /\ b < 192

\* new.chars().position(|ch| ch == '/'): 0-based char index, -1 for None
CharsPositionSlash(s) ==
    LET p == FindSlash(s) IN
    IF p = 0 THEN -1
    ELSE Cardinality({i \in 1..(p - 1) : ~IsContinuation(s[i])})

\* str::split_inclusive('/')
RECURSIVE SplitInclusive(_)
SplitInclusive(s) ==
    IF Len(s) = 0 THEN <<>>
    ELSE LET p == FindSlash(s) IN
         IF p = 0 THEN <<s>>
         ELSE <<SubSeq(s, 1, p)>> \o SplitInclusive(SubSeq(s, p + 1, Len(s)))

(***************************************************************************)
(* NodeFS::split_path                                                      *)
(***************************************************************************)
SplitFail(e) == [ok |-> FALSE, err |-> e, parent |-> <<>>, leaf |-> <<>>]

SplitPath(path, allow_dirs, require_dir) ==
    IF require_dir /\ ~allow_dirs THEN SplitFail("Directories required but not allowed")
    ELSE IF ~allow_dirs /\ EndsWithSlash(path) THEN SplitFail("Directories not allowed")
    ELSE IF require_dir /\ ~EndsWithSlash(path) THEN SplitFail("Directories are required")
    ELSE Only({
      IF trailing_slash_pos = 0 THEN SplitFail("Target path must have trailing filename")
      ELSE [ok |-> TRUE, err |-> "",
            parent |-> SubSeq(path, 1, trailing_slash_pos),
            leaf |-> SubSeq(path, trailing_slash_pos + 1, Len(path))]
      : trailing_slash_pos \in
          {RFindSlash(path, IF require_dir \/ (allow_dirs /\ EndsWithSlash(path))
                            THEN Len(path) - 1 ELSE Len(path))} })

(***************************************************************************)
(* Reads of the log: util::read_attachment and the typed getters           *)
(***************************************************************************)
NoNode == NewNode(Directory, 0)
ReadFail(e) == [ok |-> FALSE, err |-> e, node |-> NoNode]

\* NodeFS::get_node
GetNode(m, node_id) ==
    IF node_id \notin DOMAIN m THEN ReadFail("Failed to get message")
    ELSE Only({
      IF ~d.ok THEN ReadFail("Malformed block")
      ELSE [ok |-> TRUE, err |-> "", node |-> d.node]
      : d \in {NodeFromBytes(m[node_id])} })

\* the assert of get_directory_node / get_root_directory_node on a read node
AsDirectory(r) ==
    IF r.ok /\ r.node.kind # Directory
    THEN ReadFail("Tried to get non directory node as directory node")
    ELSE r

\* the assert of get_file_node on a read node
AsFile(r) ==
    IF r.ok /\ r.node.kind # File
    THEN ReadFail("Tried to get non file node as file node")
    ELSE r

GetDirectoryNode(m, node_id) == Only({AsDirectory(r) : r \in {GetNode(m, node_id)}})

GetFileNode(m, node_id) == Only({AsFile(r) : r \in {GetNode(m, node_id)}})

(***************************************************************************)
(* NodeFS::traverse_path                                                   *)
(***************************************************************************)
TravFail(e) == [ok |-> FALSE, err |-> e, node |-> NoNode, id |-> 0]

\* the loop over the intermediate segments, from directory dir
RECURSIVE TraverseSegments(_, _, _)
TraverseSegments(m, dir, segments) ==
    IF Len(segments) = 0 THEN [ok |-> TRUE, err |-> "", node |-> dir]
    ELSE IF Len(Head(segments)) = 0 THEN ReadFail("Consecutive '/' are not permitted")
    ELSE IF ~ContainsEntry(dir, Head(segments)) THEN ReadFail("Directory entry doesn't exist")
    ELSE Only({
      IF ~next.ok THEN next ELSE TraverseSegments(m, next.node, Tail(segments))
      : next \in {GetDirectoryNode(m, EntryBlock(dir, Head(segments)))} })

\* the leaf: looked up in dir, read as a directory or as a file
TraverseLeaf(m, dir, last_segment) ==
    IF ~ContainsEntry(dir, last_segment) THEN TravFail("Directory entry doesn't exist")
    ELSE Only({
      [ok |-> r.ok, err |-> r.err, node |-> r.node,
       id |-> IF r.ok THEN EntryBlock(dir, last_segment) ELSE 0]
      : r \in {Only({IF EndsWithSlash(last_segment) THEN AsDirectory(any) ELSE AsFile(any)
                     : any \in {GetNode(m, EntryBlock(dir, last_segment))}})} })

TraversePath(m, root_node_id, path) ==
    IF ~StartsWithSlash(path) THEN TravFail("Paths must start with a '/'")
    ELSE Only({
      IF ~root.ok THEN TravFail(root.err)
      ELSE IF path = <<Slash>> THEN
        [ok |-> TRUE, err |-> "", node |-> root.node, id |-> root_node_id]
      ELSE Only({
        Only({
          IF ~dir.ok THEN TravFail(dir.err)
          ELSE TraverseLeaf(m, dir.node, path_segments[Len(path_segments)])
          : dir \in {TraverseSegments(m, root.node,
                                      SubSeq(path_segments, 2, Len(path_segments) - 1))} })
        : path_segments \in {SplitInclusive(path)} })
      : root \in {GetDirectoryNode(m, root_node_id)} })

(***************************************************************************)
(* State of the program and of its collaborators                           *)
(***************************************************************************)
VARIABLES
    msgs,      \* the log: BlockId -> attachment bytes, for the messages that exist
    nextId,    \* the id the log gives to the next message (ids are never reused)
    topic,     \* the channel topic: [some, text]
    dest,      \* the local destination file of download: [exists, bytes]
    left,      \* top-level operations this behaviour may still run
    scenario,  \* which inputs the commands are given (fixed by Init)
    uploaded,  \* history: file node id -> [source, key] of each upload that succeeded
    clean,     \* history: every operation so far has returned successfully
    last,      \* history: the last top-level operation, its outcome and remote calls
    codec      \* a node taken through Node::to_bytes and Node::from_bytes:
               \* [stage, node, bytes, back]

vars == <<msgs, nextId, topic, dest, left, scenario, uploaded, clean, last, codec>>

(***************************************************************************)
(* One run of an operation: the log as it evolves, the remote mutations    *)
(* issued so far, and how the run ended.  status is "run" while running,   *)
(* "panic" after a failed assert/expect, "abort" when the remote call      *)
(* number failAt failed (failAt = 0: the transport never fails).           *)
(***************************************************************************)
Ctx(failAt) ==
    [msgs |-> msgs, nextId |-> nextId, topic |-> topic, dest |-> dest,
     calls |-> <<>>, status |-> "run", err |-> "", failAt |-> failAt, out |-> <<>>]

Panic(c, e) == IF c.status = "run" THEN [c EXCEPT !.status = "panic", !.err = e] ELSE c

TransportFails(c) == Len(c.calls) + 1 = c.failAt
Aborted(c, op, id) ==
    [c EXCEPT !.calls = Append(@, [op |-> op, id |-> id, ok |-> FALSE]),
              !.status = "abort", !.err = "transport"]

\* util::send_message: the new message's id is c.nextId
SendMessage(c, bytes) ==
    IF c.status # "run" THEN c
    ELSE IF TransportFails(c) THEN Aborted(c, "send", 0)
    ELSE [c EXCEPT !.msgs = (c.nextId :> bytes) @@ @,
                   !.nextId = @ + 1,
                   !.calls = Append(@, [op |-> "send", id |-> c.nextId, ok |-> TRUE])]

\* util::edit_message: the log refuses to edit a message that does not exist
EditMessage(c, id, bytes) ==
    IF c.status # "run" THEN c
    ELSE IF TransportFails(c) \/ id \notin DOMAIN c.msgs THEN Aborted(c, "edit", id)
    ELSE [c EXCEPT !.msgs = [@ EXCEPT ![id] = bytes],
                   !.calls = Append(@, [op |-> "edit", id |-> id, ok |-> TRUE])]

\* util::delete_message, NodeFS::delete_block
DeleteBlock(c, id) ==
    IF c.status # "run" THEN c
    ELSE IF TransportFails(c) \/ id \notin DOMAIN c.msgs THEN Aborted(c, "delete", id)
    ELSE [c EXCEPT !.msgs = [i \in (DOMAIN @) \ {id} |-> @[i]],
                   !.calls = Append(@, [op |-> "delete", id |-> id, ok |-> TRUE])]

\* util::edit_channel_topic
EditChannelTopic(c, text) ==
    IF c.status # "run" THEN c
    ELSE IF TransportFails(c) THEN Aborted(c, "topic", 0)
    ELSE [c EXCEPT !.topic = [some |-> TRUE, text |-> text],
                   !.calls = Append(@, [op |-> "topic", id |-> 0, ok |-> TRUE])]

(***************************************************************************)
(* Node Store: create and edit                                             *)
(***************************************************************************)
\* create_directory_node / create_file_node: the id of the node is c.nextId
CreateDirectoryNode(c, parent_node_id) ==
    SendMessage(c, NodeToBytes(NewNode(Directory, parent_node_id)))

CreateFileNode(c, parent_node_id) ==
    SendMessage(c, NodeToBytes(NewNode(File, parent_node_id)))

EditDirectoryNode(c, node_id, node) ==
    IF node.kind # Directory
    THEN Panic(c, "Tried to update non directory node as directory node")
    ELSE IF ~NodeToBytesOk(node) THEN Panic(c, "Converting to bytes has unexpected size")
    ELSE EditMessage(c, node_id, NodeToBytes(node))

EditFileNode(c, node_id, node) ==
    IF node.kind # File THEN Panic(c, "Tried to update non file node as file node")
    ELSE IF ~NodeToBytesOk(node) THEN Panic(c, "Converting to bytes has unexpected size")
    ELSE EditMessage(c, node_id, NodeToBytes(node))

CreateDataBlock(c, data) == SendMessage(c, data)

(***************************************************************************)
(* The channel topic as text: u64::to_string and str::parse::<u64>         *)
(***************************************************************************)
Digit0 == 48

RECURSIVE U64ToString(_)
U64ToString(n) ==
    IF n < 10 THEN <<Digit0 + n>>
    ELSE U64ToString(n \div 10) \o <<Digit0 + (n % 10)>>

IsDecimal(text) ==
    Len(text) > 0 /\ \A i \in 1..Len(text) : text[i] >= Digit0 /\ text[i] <= Digit0 + 9

RECURSIVE ParseU64(_)
ParseU64(text) ==
    IF Len(text) = 0 THEN 0
    ELSE 10 * ParseU64(SubSeq(text, 1, Len(text) - 1)) + (text[Len(text)] - Digit0)

\* the root id every operation works with: setup's first branch
RootNodeId(c) == ParseU64(c.topic.text)

(***************************************************************************)
(* NodeFS::setup                                                           *)
(***************************************************************************)
\* a setup that does not look at the topic
SetupAnew(c0) ==
    Only({EditChannelTopic(c1, U64ToString(c0.nextId))
          : c1 \in {CreateDirectoryNode(c0, 0)}})
Setup(c0) ==
    IF c0.topic.some THEN
      IF ~IsDecimal(c0.topic.text)
      THEN Panic(c0, "Only the root message ID should be in the channel topic")
      ELSE c0
    ELSE Only({EditChannelTopic(c1, U64ToString(c0.nextId))
               : c1 \in {CreateDirectoryNode(c0, 0)}})

(***************************************************************************)
(* AES-256-GCM-SIV as the code uses it: a deterministic AEAD.  The         *)
(* ciphertext is the plaintext under a keystream of (key, nonce) followed  *)
(* by a TAG_LEN-byte tag of (key, nonce, plaintext); decryption checks it. *)
(***************************************************************************)
\* a counter whose nonce never advances
GetNonceOfZero(counter) == <<0, 0, 0, 0>> \o U64ToLE(0)
\* NonceCounter::get_nonce: 4 zero bytes, then the counter little-endian
GetNonce(counter) == <<0, 0, 0, 0>> \o U64ToLE(counter)

NonceValue(nonce) == U64FromLE(SubSeq(nonce, 5, 12))

\* byte i of the keystream of key and the nonce of value nv
KeyByte(key, nv, i) == (key[((i - 1) % KEY_LEN) + 1] + 31 * nv + i) % 256

\* the sum of the bytes b[lo..hi], modulo 256
RECURSIVE SumBytes(_, _, _)
SumBytes(b, lo, hi) ==
    IF lo > hi THEN 0
    ELSE IF lo = hi THEN b[lo]
    ELSE (SumBytes(b, lo, (lo + hi) \div 2) + SumBytes(b, (lo + hi) \div 2 + 1, hi)) % 256

Tag(key, nonce, plain) ==
    LET sum == SumBytes(plain, 1, Len(plain)) + 7 * Len(plain) + 13 * NonceValue(nonce) IN
    [j \in 1..TAG_LEN |-> (sum + key[j] + j) % 256]

Encrypt(key, nonce, plain) ==
    LET nv == NonceValue(nonce) IN
    [i \in 1..Len(plain) |-> (plain[i] + KeyByte(key, nv, i)) % 256] \o Tag(key, nonce, plain)

\* a decryption that checks the tag but returns the bytes under the keystream
DecryptKeepsKeystream(key, nonce, cipher) ==
    IF Len(cipher) < TAG_LEN THEN [ok |-> FALSE, plain |-> <<>>]
    ELSE [ok |-> TRUE, plain |-> SubSeq(cipher, 1, Len(cipher) - TAG_LEN)]

Decrypt(key, nonce, cipher) ==
    IF Len(cipher) < TAG_LEN THEN [ok |-> FALSE, plain |-> <<>>]
    ELSE
      LET n == Len(cipher) - TAG_LEN
          nv == NonceValue(nonce)
          plain == [i \in 1..n |-> (cipher[i] + 256 - KeyByte(key, nv, i)) % 256]
      IN
      IF SubSeq(cipher, n + 1, Len(cipher)) = Tag(key, nonce, plain)
      THEN [ok |-> TRUE, plain |-> plain]
      ELSE [ok |-> FALSE, plain |-> <<>>]

Min(a, b) == IF a < b THEN a ELSE b

(***************************************************************************)
(* NodeFS::__upload                                                        *)
(***************************************************************************)
\* the chunk loop: st = [c, file_node, read_bytes, nonce]
RECURSIVE UploadChunks(_, _, _)
UploadChunks(st, data, cypher_key) ==
    IF st.c.status # "run" \/ st.read_bytes = Len(data) THEN st
    ELSE Only({
      Only({
        IF c1.status # "run" THEN [st EXCEPT !.c = c1]
        ELSE IF ~PushDataBlockOk(st.file_node)
        THEN [st EXCEPT !.c = Panic(c1, "File will exceed the maximum block count")]
        ELSE UploadChunks([c |-> c1,
                           file_node |-> PushDataBlock(st.file_node, st.c.nextId, chunk_size),
                           read_bytes |-> st.read_bytes + chunk_size,
                           nonce |-> st.nonce + 1],
                          data, cypher_key)
        : c1 \in {CreateDataBlock(st.c,
                     Encrypt(cypher_key, GetNonce(st.nonce),
                             SubSeq(data, st.read_bytes + 1, st.read_bytes + chunk_size)))} })
      : chunk_size \in {Min(Len(data) - st.read_bytes, BLOCK_SIZE)} })

\* the slice &key.as_bytes()[..32]
KeySlice(c, key) == IF Len(key) < KEY_LEN THEN Panic(c, "key shorter than 32 bytes") ELSE c

\* the final updates of the nodes: st is the state the chunk loop ended in
UploadUpdateNodes(st, dir, file_name, file_node_id) ==
    Only({EditFileNode(c4, file_node_id, st.file_node)
          : c4 \in {EditDirectoryNode(st.c, dir.id,
                                      PushDirectoryEntry(dir.node, file_name, file_node_id))}})

\* from create_file_node on: dir is the traversed target directory [node, id]
UploadInto(c0, data, key, dir, file_name) ==
    Only({UploadUpdateNodes(st, dir, file_name, c0.nextId)
          : st \in {UploadChunks([c |-> KeySlice(CreateFileNode(c0, dir.id), key),
                                  file_node |-> NewNode(File, dir.id),
                                  read_bytes |-> 0, nonce |-> 0],
                                 data, SubSeq(key, 1, KEY_LEN))}})

\* source: the local file [exists, bytes]
Upload(c0, source, destination, key) ==
    IF ~source.exists THEN Panic(c0, "Failed to open file")
    ELSE IF Len(source.bytes) > MAX_FILE_SIZE THEN Panic(c0, "File exceeds maximum file size")
    ELSE Only({
      IF ~sp.ok THEN Panic(c0, sp.err)
      ELSE Only({
        IF ~dir.ok THEN Panic(c0, dir.err)
        ELSE IF IsFull(dir.node) THEN Panic(c0, "The directory is full")
        ELSE IF ContainsEntry(dir.node, sp.leaf) THEN Panic(c0, "The file already exists")
        ELSE UploadInto(c0, source.bytes, key, dir, sp.leaf)
        : dir \in {TraversePath(c0.msgs, RootNodeId(c0), sp.parent)} })
      : sp \in {SplitPath(destination, FALSE, FALSE)} })

(***************************************************************************)
(* NodeFS::__download                                                      *)
(***************************************************************************)
\* the loop over the file node's blocks: c.dest is the destination file
RECURSIVE DownloadBlocks(_, _, _, _)
DownloadBlocks(c, nonce, blocks, cypher_key) ==
    IF c.status # "run" \/ Len(blocks) = 0 THEN c
    ELSE IF Head(blocks) \notin DOMAIN c.msgs THEN Panic(c, "Failed to get data block")
    ELSE Only({
      IF ~block.ok THEN Panic(c, "Failed to decrypt data")
      ELSE DownloadBlocks([c EXCEPT !.dest.bytes = @ \o block.plain], nonce + 1,
                          Tail(blocks), cypher_key)
      : block \in {Decrypt(cypher_key, GetNonce(nonce), c.msgs[Head(blocks)])} })

\* File::create(destination)
CreateDest(c) == [c EXCEPT !.dest = [exists |-> TRUE, bytes |-> <<>>]]

Download(c0, source, key) ==
    Only({
      Only({
        IF ~src.ok THEN Panic(c1, src.err)
        ELSE IF src.node.kind = Directory THEN Panic(c1, "Can't download directories")
        ELSE IF Len(key) < KEY_LEN THEN Panic(c1, "key shorter than 32 bytes")
        ELSE DownloadBlocks(c1, 0, src.node.blocks, SubSeq(key, 1, KEY_LEN))
        : src \in {TraversePath(c1.msgs, RootNodeId(c1), source)} })
      : c1 \in {CreateDest(c0)} })

(***************************************************************************)
(* NodeFS::delete_file and NodeFS::delete_directory                        *)
(***************************************************************************)
RECURSIVE DeleteBlocks(_, _)
DeleteBlocks(c, blocks) ==
    IF c.status # "run" \/ Len(blocks) = 0 THEN c
    ELSE DeleteBlocks(DeleteBlock(c, Head(blocks)), Tail(blocks))

DeleteFile(c, node, node_id) ==
    IF node.kind # File THEN Panic(c, "Attempt to delete non file node as file node")
    ELSE DeleteBlock(DeleteBlocks(c, node.blocks), node_id)

\* depth counts the nested calls: a walk deeper than the log has messages is in
\* a cycle of directories and never returns
RECURSIVE DeleteDirectory(_, _, _, _)
RECURSIVE DeleteEntries(_, _, _)
DeleteEntries(c, entries, depth) ==
    IF c.status # "run" \/ Len(entries) = 0 THEN c
    ELSE Only({
      DeleteEntries(IF ~entry_node.ok THEN Panic(c, entry_node.err)
                    ELSE IF entry_node.node.kind = Directory
                    THEN DeleteDirectory(c, entry_node.node, Head(entries).block, depth + 1)
                    ELSE DeleteFile(c, entry_node.node, Head(entries).block),
                    Tail(entries), depth)
      : entry_node \in {GetNode(c.msgs, Head(entries).block)} })

DeleteDirectory(c, node, node_id, depth) ==
    IF node.kind # Directory
    THEN Panic(c, "Attempt to delete non directory node as directory node")
    ELSE IF depth > Cardinality(DOMAIN c.msgs) THEN Panic(c, "diverges")
    ELSE DeleteBlock(DeleteEntries(c, node.entries, depth), node_id)

(***************************************************************************)
(* NodeFS::__rm                                                            *)
(***************************************************************************)
\* from the kind match on: target [node, id] is the traversed path, dir the
\* node read at target.node.parent_block_id
RmTarget(c0, target, dir, file_name, quick, recursive) ==
    IF target.node.kind = Directory /\ ~recursive
    THEN Panic(c0, "Directories must be deleted recursively")
    ELSE IF target.node.kind = File /\ recursive
    THEN Panic(c0, "Files cannot be deleted recursively")
    ELSE Only({
      IF ~DeleteDirectoryEntryOk(dir, file_name)
      THEN Panic(c1, "Directory entry doesn't exist")
      ELSE EditDirectoryNode(c1, target.node.parent_block_id,
                             DeleteDirectoryEntry(dir, file_name))
      : c1 \in {IF quick THEN c0
                ELSE IF recursive THEN DeleteDirectory(c0, target.node, target.id, 0)
                ELSE DeleteFile(c0, target.node, target.id)} })

Rm(c0, path, quick, recursive) ==
    IF path = <<Slash>> THEN Panic(c0, "Cannot delete root directory")
    ELSE Only({
      IF ~sp.ok THEN Panic(c0, sp.err)
      ELSE Only({
        IF ~target.ok THEN Panic(c0, target.err)
        ELSE Only({
          IF ~dir.ok THEN Panic(c0, dir.err)
          ELSE RmTarget(c0, target, dir.node, sp.leaf, quick, recursive)
          : dir \in {GetDirectoryNode(c0.msgs, target.node.parent_block_id)} })
        : target \in {TraversePath(c0.msgs, RootNodeId(c0), path)} })
      : sp \in {SplitPath(path, TRUE, FALSE)} })

(***************************************************************************)
(* NodeFS::mv                                                              *)
(***************************************************************************)
\* "move entry and save": src and target are traversed [node, id],
\* source_parent the node read at src.node.parent_block_id
MvEntry(c0, src, source_parent, target, source_name) ==
    IF target.node.kind # Directory THEN Panic(c0, "Must move into a directory")
    ELSE IF IsFull(target.node) THEN Panic(c0, "The directory is full")
    ELSE IF ContainsEntry(target.node, source_name)
    THEN Panic(c0, "Destination directory already contains entry with the same name")
    ELSE IF ~DeleteDirectoryEntryOk(source_parent, source_name)
    THEN Panic(c0, "Directory entry doesn't exist")
    ELSE IF ~PushDirectoryEntryOk(target.node)
    THEN Panic(c0, "Directory will exceed the maximum entry count")
    ELSE Only({
      EditDirectoryNode(c1, target.id, PushDirectoryEntry(target.node, source_name, src.id))
      : c1 \in {EditDirectoryNode(c0, src.node.parent_block_id,
                                  DeleteDirectoryEntry(source_parent, source_name))} })

Mv(c0, source, destination) ==
    IF source = destination THEN c0
    ELSE IF source = <<Slash>> THEN Panic(c0, "Cannot move root directory")
    ELSE Only({
      IF ~sp.ok THEN Panic(c0, sp.err)
      ELSE Only({
        IF ~src.ok THEN Panic(c0, src.err)
        ELSE Only({
          IF ~source_parent.ok THEN Panic(c0, source_parent.err)
          ELSE Only({
            IF ~target.ok THEN Panic(c0, target.err)
            ELSE MvEntry(c0, src, source_parent.node, target, sp.leaf)
            : target \in {TraversePath(c0.msgs, RootNodeId(c0), destination)} })
          : source_parent \in {GetDirectoryNode(c0.msgs, src.node.parent_block_id)} })
        : src \in {TraversePath(c0.msgs, RootNodeId(c0), source)} })
      : sp \in {SplitPath(source, TRUE, FALSE)} })

(***************************************************************************)
(* NodeFS::rename                                                          *)
(***************************************************************************)
\* the asserts on the new name; slash_pos is new.chars().position('/'), -1 for None
\* a check of the new name that does not look at the old one
RenameArgsErrOfNewOnly(old, new, slash_pos) ==
    IF new = <<Slash>> THEN "New name must not only be a '/'" ELSE ""
RenameArgsErr(old, new, slash_pos) ==
    IF new = <<Slash>> THEN "New name must not only be a '/'"
    ELSE IF EndsWithSlash(old) /\ slash_pos = -1 THEN "unwrap on None"
    ELSE IF EndsWithSlash(old) /\ slash_pos # Len(new) - 1
    THEN "New directory name must only have '/' at the end"
    ELSE IF ~EndsWithSlash(old) /\ slash_pos # -1 THEN "New file name must not end with '/'"
    ELSE ""

\* "rename entry and save": dir is the traversed directory [node, id]
RenameEntry(c0, dir, target_name, new) ==
    IF ~ContainsEntry(dir.node, target_name) THEN Panic(c0, "Directory entry doesn't exist")
    ELSE IF ~SetNameOk(new) THEN Panic(c0, "Name exceeds directory entry name size")
    ELSE EditDirectoryNode(c0, dir.id, RenameDirectoryEntry(dir.node, target_name, new))

Rename(c0, old, new) ==
    Only({
      IF e # "" THEN Panic(c0, e)
      ELSE Only({
        IF ~sp.ok THEN Panic(c0, sp.err)
        ELSE Only({
          IF ~dir.ok THEN Panic(c0, dir.err)
          ELSE RenameEntry(c0, dir, sp.leaf, new)
          : dir \in {TraversePath(c0.msgs, RootNodeId(c0), sp.parent)} })
        : sp \in {SplitPath(old, TRUE, FALSE)} })
      : e \in {RenameArgsErr(old, new, CharsPositionSlash(new))} })

(***************************************************************************)
(* NodeFS::mkdir                                                           *)
(***************************************************************************)
\* from create_directory_node on: dir is the traversed parent [node, id]
MkdirIn(c0, dir, name) ==
    Only({
      EditDirectoryNode(IF ~PushDirectoryEntryOk(dir.node)
                        THEN Panic(c1, "Directory will exceed the maximum entry count")
                        ELSE c1,
                        dir.id, PushDirectoryEntry(dir.node, name, c0.nextId))
      : c1 \in {CreateDirectoryNode(c0, dir.id)} })

Mkdir(c0, path) ==
    Only({
      IF ~sp.ok THEN Panic(c0, sp.err)
      ELSE Only({
        IF ~dir.ok THEN Panic(c0, dir.err)
        ELSE IF IsFull(dir.node) THEN Panic(c0, "The directory is full")
        ELSE IF ContainsEntry(dir.node, sp.leaf) THEN Panic(c0, "The file already exists")
        ELSE MkdirIn(c0, dir, sp.leaf)
        : dir \in {TraversePath(c0.msgs, RootNodeId(c0), sp.parent)} })
      : sp \in {SplitPath(path, TRUE, TRUE)} })

(***************************************************************************)
(* NodeFS::ls and NodeFS::__list                                           *)
(***************************************************************************)
\* the line __list prints for a node
ListLine(indent, curr_name, curr_dir) ==
    [indent |-> indent, name |-> curr_name, kind |-> curr_dir.kind, size |-> curr_dir.size]

ListFail(e, lines) == [ok |-> FALSE, err |-> e, lines |-> lines]

\* __list gives [ok, err, lines]: the lines printed, also when it panics.
\* depth counts the nested calls: a walk deeper than the log has messages is
\* in a cycle of directories and never returns
RECURSIVE List(_, _, _, _, _)
RECURSIVE ListEntries(_, _, _, _)
\* the loop over the entries: indent grows with every entry
ListEntries(m, indent, entries, depth) ==
    IF Len(entries) = 0 THEN [ok |-> TRUE, err |-> "", lines |-> <<>>]
    ELSE Only({
      IF ~entry_node.ok THEN ListFail(entry_node.err, <<>>)
      ELSE Only({
        IF ~sub.ok THEN sub
        ELSE Only({
          [ok |-> rest.ok, err |-> rest.err, lines |-> sub.lines \o rest.lines]
          : rest \in {ListEntries(m, indent + 1, Tail(entries), depth)} })
        : sub \in {List(m, indent + 1, Head(entries).name, entry_node.node, depth + 1)} })
      : entry_node \in {GetNode(m, Head(entries).block)} })

List(m, indent, curr_name, curr_dir, depth) ==
    IF curr_dir.kind = File
    THEN [ok |-> TRUE, err |-> "", lines |-> <<ListLine(indent, curr_name, curr_dir)>>]
    ELSE IF depth > Cardinality(DOMAIN m)
    THEN ListFail("diverges", <<ListLine(indent, curr_name, curr_dir)>>)
    ELSE Only({
      [ok |-> r.ok, err |-> r.err, lines |-> <<ListLine(indent, curr_name, curr_dir)>> \o r.lines]
      : r \in {ListEntries(m, indent, curr_dir.entries, depth)} })

\* the lines go to the terminal whether or not the listing ends in a panic
Printed(c, listing) ==
    IF listing.ok THEN [c EXCEPT !.out = listing.lines]
    ELSE Panic([c EXCEPT !.out = listing.lines], listing.err)

\* path: the optional argument [some, path]
Ls(c0, path) ==
    IF path.some THEN
      Only({
        IF ~sp.ok THEN Panic(c0, sp.err)
        ELSE Only({
          IF ~path_node.ok THEN Panic(c0, path_node.err)
          ELSE Printed(c0, List(c0.msgs, 0, sp.leaf, path_node.node, 0))
          : path_node \in {TraversePath(c0.msgs, RootNodeId(c0), path.path)} })
        : sp \in {SplitPath(path.path, TRUE, TRUE)} })
    ELSE
      Only({
        IF ~root.ok THEN Panic(c0, root.err)
        ELSE Printed(c0, List(c0.msgs, 0, <<Slash>>, root.node, 0))
        : root \in {GetDirectoryNode(c0.msgs, RootNodeId(c0))} })

(***************************************************************************)
(* Inputs of the operations                                                *)
(***************************************************************************)
\* the paths and names given on the command line: a is 97, b 98, f 102, g 103
PRoot == <<Slash>>
PA == <<Slash, 97, Slash>>
PB == <<Slash, 98, Slash>>
PAB == <<Slash, 97, Slash, 98, Slash>>
PF == <<Slash, 102>>
PG == <<Slash, 103>>
PAF == <<Slash, 97, Slash, 102>>
NA == <<97, Slash>>
NB == <<98, Slash>>
NF == <<102>>
NG == <<103>>

\* a name of n bytes: n times the byte ch, a directory's name ending in '/'
FileName(ch, n) == [i \in 1..n |-> ch]
DirName(ch, n) == [i \in 1..n |-> IF i = n THEN Slash ELSE ch]
\* a name of exactly NAME_LEN bytes, and one byte longer
NLongF == FileName(102, NAME_LEN)
NLongerF == FileName(102, NAME_LEN + 1)
NLongA == DirName(97, NAME_LEN)
NLongerA == DirName(97, NAME_LEN + 1)
\* e with an acute accent, U+00E9, is two bytes of UTF-8
NAccent == <<195, 169, Slash>>
\* a non-ASCII directory name of exactly NAME_LEN bytes
NLongAccent == FileName(97, NAME_LEN - Len(NAccent)) \o NAccent
NEmpty == <<>>
\* paths with two consecutive '/'
PSlashSlash == <<Slash, Slash>>
PASlashSlash == <<Slash, 97, Slash, Slash>>

\* the keys given on the command line, by number: 1 and 2 agree on their first
\* 32 bytes, 3 differs, 4 is one byte short
Key(k) ==
    CASE k = 1 -> [i \in 1..KEY_LEN |-> i]
      [] k = 2 -> [i \in 1..(KEY_LEN + 1) |-> i]
      [] k = 3 -> [i \in 1..KEY_LEN |-> 2 * i]
      [] OTHER -> [i \in 1..(KEY_LEN - 1) |-> i]

\* the local source files, by number: 0 does not exist, 1 is empty, 2 holds one
\* byte, 3 one byte more than a block, 4 is of the maximum size, 5 one byte more
SourceLen(s) ==
    CASE s = 1 -> 0 [] s = 2 -> 1 [] s = 3 -> BLOCK_SIZE + 1 [] s = 4 -> MAX_FILE_SIZE
      [] OTHER -> MAX_FILE_SIZE + 1
Source(s) ==
    [exists |-> s # 0,
     bytes |-> IF s = 0 THEN <<>> ELSE [i \in 1..SourceLen(s) |-> (37 * i + s) % 256]]

\* The commands a behaviour may be given.  "tree" exercises the directory tree,
\* "data" the file contents and keys, "boot" the startup with failing calls.
\* "moved" moves a file and goes on working with it, "names" gives unusual
\* paths, names and a short key, "nested" moves directories that hold directories; all
\* three on a transport that does not fail.  "codec" runs no command.
Scenarios == {"tree", "data", "boot", "moved", "names", "nested", "codec"}

MkdirPaths ==
    CASE scenario = "tree" -> {PA, PB, PAB, PF}
      [] scenario = "names" ->
           {PA, PB, PSlashSlash, PASlashSlash, <<Slash>> \o NLongA, <<Slash>> \o NLongerA,
            <<Slash>> \o NAccent, <<Slash>> \o NLongAccent}
      [] scenario = "nested" -> {PA, PB, PB \o NA \o <<99, Slash>>}
      [] OTHER -> {PA}
UploadDests ==
    CASE scenario = "tree" -> {PF, PAF}
      [] scenario = "names" -> {PF, <<Slash>> \o NLongF, <<Slash>> \o NLongerF}
      [] OTHER -> {PF}
UploadSources ==
    CASE scenario \in {"tree", "moved"} -> {2}
      [] scenario = "data" -> {0, 1, 2, 3, 4, 5}
      [] OTHER -> {1}
UploadKeys ==
    CASE scenario = "data" -> {1, 3}
      [] scenario = "names" -> {1, 4}
      [] OTHER -> {1}
DownloadPaths ==
    CASE scenario = "tree" -> {PF, PAF}
      [] scenario = "moved" -> {PAF}
      [] scenario = "data" -> {PF, PG}
      [] OTHER -> {PF}
DownloadKeys ==
    CASE scenario = "data" -> {1, 2, 3}
      [] OTHER -> {1}
RmPaths ==
    CASE scenario = "tree" -> {PRoot, PA, PB, PF, PAF}
      [] scenario = "data" -> {PF}
      [] scenario = "moved" -> {PF, PAF}
      [] OTHER -> {PA, PF}
MvSources ==
    CASE scenario = "tree" -> {PA, PB, PF, PAF}
      [] scenario = "nested" -> {PA, PB \o NA}
      [] OTHER -> {PF}
MvDests ==
    CASE scenario = "tree" -> {PRoot, PA, PB, PAB}
      [] scenario = "nested" -> {PB, PB \o NA \o <<99, Slash>>}
      [] OTHER -> {PA}
RenameOlds ==
    CASE scenario \in {"tree", "names"} -> {PA, PF}
      [] OTHER -> {PF}
RenameNews ==
    CASE scenario = "tree" -> {NB, NG}
      [] scenario = "names" -> {NA, NB, NG, NEmpty, NLongF, NLongerF, NLongA, NLongerA}
      [] OTHER -> {NG}

LsPaths ==
    CASE scenario = "tree" -> {PRoot, PA}
      [] OTHER -> {PRoot}

(***************************************************************************)
(* The top-level operations as actions                                     *)
(***************************************************************************)
NoOp == [op |-> "none", path |-> <<>>, path2 |-> <<>>, quick |-> FALSE, recursive |-> FALSE,
         key |-> 0, source |-> 0, given |-> TRUE,
         status |-> "ok", err |-> "", calls |-> <<>>, out |-> <<>>]

Outcome(c) == IF c.status = "run" THEN "ok" ELSE c.status

\* the remote calls whose failure may be injected into a run that issues n
\* calls (0: none); the "data", "moved", "names" and "nested" commands run
\* on a transport that does not fail
FailPoints(n) == IF scenario \in {"data", "moved", "names", "nested"} THEN {0} ELSE 0..n

\* one process runs one operation
Commit(c, info) ==
    /\ c.nextId <= MaxBlocks + 1
    /\ msgs' = c.msgs
    /\ nextId' = c.nextId
    /\ topic' = c.topic
    /\ dest' = c.dest
    /\ last' = [info EXCEPT !.status = Outcome(c), !.err = c.err, !.calls = c.calls,
                             !.out = c.out]
    /\ clean' = (clean /\ c.status = "run")
    /\ UNCHANGED <<scenario, codec>>

\* no node is being converted
NoCodec == [stage |-> "none", node |-> NoNode, bytes |-> <<>>, back |-> BadNode]

\* directories of up to ENTRY_COUNT entries, size equal to the entry count;
\* the names are ASCII ones, one of them NAME_LEN bytes long, and two with a
\* two-byte UTF-8 character; the block ids have one and two significant bytes
CodecDirectories ==
    {[kind |-> Directory, size |-> Len(entries), parent_block_id |-> parent,
      blocks |-> <<>>, entries |-> entries]
     : entries \in UNION {[1..n -> {NewEntry(name, block)
                                    : name \in {NF, NA, NLongF, <<195, 169>>, NAccent},
                                      block \in {2, 300}}]
                          : n \in 0..ENTRY_COUNT},
       parent \in {0, 1}}

\* files of up to MAX_FILE_SIZE bytes and up to BLOCK_COUNT block ids
CodecFiles ==
    {[kind |-> File, size |-> size, parent_block_id |-> parent,
      blocks |-> [i \in 1..n |-> IF i = 3 THEN 300 ELSE i + 1], entries |-> <<>>]
     : size \in {0, 1, MAX_FILE_SIZE}, n \in 0..BLOCK_COUNT, parent \in {0, 1}}

\* blocks as the log may hand them to Node::from_bytes: a header of kind
\* File with a size up to MAX_FILE_SIZE + 1, then a payload of any length up
\* to two block ids and a byte
CodecBlocks ==
    {U64ToLE(File) \o U64ToLE(size) \o U64ToLE(parent)
       \o SubSeq(U64ToLE(2) \o U64ToLE(300) \o U64ToLE(5), 1, n)
     : size \in {0, 1, MAX_FILE_SIZE, MAX_FILE_SIZE + 1},
       n \in 0..(2 * BLOCK_INDEX_SIZE + 1), parent \in {0, 1}}

\* a node to take through to_bytes and from_bytes, or a block to decode
CodecInputs ==
    {[NoCodec EXCEPT !.stage = "node", !.node = n] : n \in CodecDirectories \cup CodecFiles}
    \cup {[NoCodec EXCEPT !.stage = "block", !.bytes = b] : b \in CodecBlocks}

InitWith(sc) ==
    /\ msgs = <<>>
    /\ nextId = 1
    /\ topic = [some |-> FALSE, text |-> <<>>]
    /\ dest = [exists |-> FALSE, bytes |-> <<>>]
    /\ left = CASE sc = "moved" -> MaxMovedOps [] sc = "names" -> MaxNameOps
                 [] sc = "nested" -> MaxNestedOps [] OTHER -> MaxOps
    /\ scenario = sc
    /\ uploaded = <<>>
    /\ clean = TRUE
    /\ last = NoOp
    /\ codec \in (IF sc = "codec" THEN CodecInputs ELSE {NoCodec})

Init == InitWith("tree")
InitData == InitWith("data")
InitBoot == InitWith("boot")
InitMoved == InitWith("moved")
InitNames == InitWith("names")
InitNested == InitWith("nested")

\* main: setup, when the channel has no topic yet
Startup ==
    /\ ~topic.some
    /\ \E failAt \in (IF scenario = "boot" THEN FailPoints(2) ELSE {0}) :
       \E c \in {Setup(Ctx(failAt))} :
          /\ c.failAt = 0 \/ c.status = "abort"
          /\ Commit(c, [NoOp EXCEPT !.op = "startup"])
          /\ UNCHANGED <<uploaded, left>>

\* Every other command runs after a setup that found the root id in the topic.
\* Each is run once with a transport that never fails, and once for every
\* remote call of that run, with that call failing.
DoUpload ==
    /\ topic.some /\ left > 0
    /\ \E s \in UploadSources, d \in UploadDests, k \in UploadKeys :
       \E c0 \in {Upload(Setup(Ctx(0)), Source(s), d, Key(k))} :
       \E failAt \in FailPoints(Len(c0.calls)) :
       \E c \in {IF failAt = 0 THEN c0 ELSE Upload(Setup(Ctx(failAt)), Source(s), d, Key(k))} :
          /\ Commit(c, [NoOp EXCEPT !.op = "upload", !.path = d, !.key = k, !.source = s])
          /\ uploaded' = IF c.status = "run"
                         THEN (nextId :> [source |-> s, key |-> k]) @@ uploaded
                         ELSE uploaded
          /\ left' = left - 1

DoDownload ==
    /\ topic.some /\ left > 0
    /\ \E s \in DownloadPaths, k \in DownloadKeys :
       \E c \in {Download(Setup(Ctx(0)), s, Key(k))} :
          /\ Commit(c, [NoOp EXCEPT !.op = "download", !.path = s, !.key = k])
          /\ left' = left - 1
          /\ UNCHANGED uploaded

DoRm ==
    /\ topic.some /\ left > 0
    /\ \E p \in RmPaths, quick \in BOOLEAN, recursive \in BOOLEAN :
       \E c0 \in {Rm(Setup(Ctx(0)), p, quick, recursive)} :
       \E failAt \in FailPoints(Len(c0.calls)) :
       \E c \in {IF failAt = 0 THEN c0 ELSE Rm(Setup(Ctx(failAt)), p, quick, recursive)} :
          /\ Commit(c, [NoOp EXCEPT !.op = "rm", !.path = p, !.quick = quick,
                                    !.recursive = recursive])
          /\ left' = left - 1
          /\ UNCHANGED uploaded

DoMv ==
    /\ topic.some /\ left > 0
    /\ \E s \in MvSources, d \in MvDests :
       \E c0 \in {Mv(Setup(Ctx(0)), s, d)} :
       \E failAt \in FailPoints(Len(c0.calls)) :
       \E c \in {IF failAt = 0 THEN c0 ELSE Mv(Setup(Ctx(failAt)), s, d)} :
          /\ Commit(c, [NoOp EXCEPT !.op = "mv", !.path = s, !.path2 = d])
          /\ left' = left - 1
          /\ UNCHANGED uploaded

DoRename ==
    /\ topic.some /\ left > 0
    /\ \E old \in RenameOlds, new \in RenameNews :
       \E c0 \in {Rename(Setup(Ctx(0)), old, new)} :
       \E failAt \in FailPoints(Len(c0.calls)) :
       \E c \in {IF failAt = 0 THEN c0 ELSE Rename(Setup(Ctx(failAt)), old, new)} :
          /\ Commit(c, [NoOp EXCEPT !.op = "rename", !.path = old, !.path2 = new])
          /\ left' = left - 1
          /\ UNCHANGED uploaded

DoMkdir ==
    /\ topic.some /\ left > 0
    /\ \E p \in MkdirPaths :
       \E c0 \in {Mkdir(Setup(Ctx(0)), p)} :
       \E failAt \in FailPoints(Len(c0.calls)) :
       \E c \in {IF failAt = 0 THEN c0 ELSE Mkdir(Setup(Ctx(failAt)), p)} :
          /\ Commit(c, [NoOp EXCEPT !.op = "mkdir", !.path = p])
          /\ left' = left - 1
          /\ UNCHANGED uploaded

\* ls with a path, or with none
DoLs ==
    /\ topic.some /\ left > 0
    /\ \E p \in LsPaths, given \in BOOLEAN :
       \E c \in {Ls(Setup(Ctx(0)), [some |-> given, path |-> p])} :
          /\ Commit(c, [NoOp EXCEPT !.op = "ls", !.path = IF given THEN p ELSE <<>>,
                                    !.given = given])
          /\ left' = left - 1
          /\ UNCHANGED uploaded

Next ==
    \/ Startup
    \/ DoLs
    \/ DoUpload
    \/ DoDownload
    \/ DoRm
    \/ DoMv
    \/ DoRename
    \/ DoMkdir

Spec == Init /\ [][Next]_vars
SpecData == InitData /\ [][Next]_vars
SpecBoot == InitBoot /\ [][Next]_vars
SpecMoved == InitMoved /\ [][Next]_vars
SpecNames == InitNames /\ [][Next]_vars
SpecNested == InitNested /\ [][Next]_vars

\* Node::to_bytes applied to the node at hand; its asserts panic
ToBytes ==
    /\ codec.stage = "node"
    /\ codec' = IF NodeToBytesOk(codec.node)
                THEN [codec EXCEPT !.stage = "bytes", !.bytes = NodeToBytes(codec.node)]
                ELSE [codec EXCEPT !.stage = "panic"]
    /\ UNCHANGED <<msgs, nextId, topic, dest, left, scenario, uploaded, clean, last>>

\* Node::from_bytes applied to the bytes to_bytes gave ("back"), or to a
\* block read from the log ("read")
FromBytes ==
    /\ codec.stage \in {"bytes", "block"}
    /\ codec' = [codec EXCEPT !.stage = IF codec.stage = "bytes" THEN "back" ELSE "read",
                              !.back = NodeFromBytes(codec.bytes)]
    /\ UNCHANGED <<msgs, nextId, topic, dest, left, scenario, uploaded, clean, last>>

NextCodec == ToBytes \/ FromBytes

InitCodec == InitWith("codec")
SpecCodec == InitCodec /\ [][NextCodec]_vars

(***************************************************************************)
(* The tree a log state holds                                              *)
(***************************************************************************)
\* the root id stored in the channel topic t
RootOf(t) == ParseU64(t.text)

\* the entries of the directory stored at id, each with the id of the
\* directory holding it and its position there
EntriesAt(m, id) ==
    IF id \notin DOMAIN m THEN {}
    ELSE Only({
      IF d.ok /\ d.node.kind = Directory
      THEN {[dir |-> id, idx |-> i, name |-> d.node.entries[i].name,
             block |-> d.node.entries[i].block] : i \in 1..Len(d.node.entries)}
      ELSE {}
      : d \in {NodeFromBytes(m[id])} })

\* the ids reached from the ids of S through directory entries, S included
RECURSIVE ReachableFrom(_, _)
ReachableFrom(m, S) ==
    Only({
      IF T \subseteq S THEN S ELSE ReachableFrom(m, S \cup T)
      : T \in {{e.block : e \in UNION {EntriesAt(m, d) : d \in S}}} })

\* the directory entries reachable from the directory at id
ReachableEntries(m, id) == UNION {EntriesAt(m, d) : d \in ReachableFrom(m, {id})}

\* the data blocks of the file nodes among the ids of S
DataBlocksOf(m, S) ==
    UNION {Only({IF r.ok /\ r.node.kind = File
                 THEN {r.node.blocks[i] : i \in 1..Len(r.node.blocks)}
                 ELSE {}
                 : r \in {GetNode(m, id)}}) : id \in S}

\* what a path resolves to in log m with topic t
Resolve(m, t, path) == TraversePath(m, RootOf(t), path)

(***************************************************************************)
(* Claims                                                                  *)
(***************************************************************************)
\* the id of the file node an upload created: its first remote call
UploadFileNodeId(calls) == calls[1].id

\* C1: during an upload, the edit of the parent directory that adds the file's
\* entry is issued only after the final edit of the file node has succeeded
\* (and so after every data block has been created).
C1_DirectoryEditAfterFileEdit ==
    last.op = "upload" =>
      \A i \in 1..Len(last.calls) :
        (last.calls[i].op = "edit" /\ last.calls[i].id # UploadFileNodeId(last.calls)) =>
          \E j \in 1..(i - 1) :
            /\ last.calls[j].op = "edit"
            /\ last.calls[j].id = UploadFileNodeId(last.calls)
            /\ last.calls[j].ok

\* C2: after an upload that was aborted at one of its remote calls, the
\* destination's parent directory in the log holds no entry for the file.
C2_AbortedUploadLeavesNoEntry ==
    (last.op = "upload" /\ last.status = "abort") =>
      \A sp \in {SplitPath(last.path, FALSE, FALSE)} :
      \A dir \in {Resolve(msgs, topic, sp.parent)} :
        dir.ok => ~ContainsEntry(dir.node, sp.leaf)

\* C3: after operations that all succeeded, every node reachable from the root
\* is referenced by exactly one directory entry, and the directory holding
\* that entry is the one the node names as its parent_block_id.
C3_OneEntryInTheParent ==
    (clean /\ topic.some) =>
      \A R \in {ReachableEntries(msgs, RootOf(topic))} :
      \A e \in R :
        /\ Cardinality({x \in R : x.block = e.block}) = 1
        /\ \A r \in {GetNode(msgs, e.block)} : r.ok => r.node.parent_block_id = e.dir

\* the keys numbered k1 and k2 give the same 32-byte cypher key
SameCypherKey(k1, k2) ==
    /\ Len(Key(k1)) >= KEY_LEN /\ Len(Key(k2)) >= KEY_LEN
    /\ SubSeq(Key(k1), 1, KEY_LEN) = SubSeq(Key(k2), 1, KEY_LEN)

\* C4: for a source of at most MAX_FILE_SIZE bytes and a key of at least 32
\* bytes, a download that follows a successful upload of the source to a path,
\* of that path and with that key, succeeds and writes exactly the source's
\* bytes; and every successful download of an uploaded file with the key of
\* its upload has written exactly the bytes that were uploaded.
C4_UploadDownloadRoundTrip ==
    /\ (last.op = "upload" /\ last.status = "ok") =>
          \A c \in {Download(Setup(Ctx(0)), last.path, Key(last.key))} :
             c.status = "run" /\ c.dest.bytes = Source(last.source).bytes
    /\ (last.op = "download" /\ last.status = "ok") =>
          \A src \in {Resolve(msgs, topic, last.path)} :
             (/\ src.ok
              /\ src.id \in DOMAIN uploaded
              /\ SameCypherKey(uploaded[src.id].key, last.key))
             => dest.bytes = Source(uploaded[src.id].source).bytes

\* a download has written the MAX_FILE_SIZE bytes of an uploaded file, read
\* from BLOCK_COUNT data blocks
C4_Witness ==
    /\ last.op = "download" /\ last.status = "ok"
    /\ \E src \in {Resolve(msgs, topic, last.path)} :
          /\ src.ok /\ src.id \in DOMAIN uploaded
          /\ SameCypherKey(uploaded[src.id].key, last.key)
          /\ Len(src.node.blocks) = BLOCK_COUNT
    /\ Len(dest.bytes) = MAX_FILE_SIZE
    /\ dest.bytes = Source(4).bytes

\* C5: after operations that all succeeded, no directory node holds two
\* entries with the same name.
C5_NamesUniqueInDirectory ==
    clean =>
      \A id \in DOMAIN msgs :
      \A E \in {EntriesAt(msgs, id)} :
      \A e1 \in E, e2 \in E : e1.name = e2.name => e1.idx = e2.idx

\* every id reachable from the root of log m is a block that exists and decodes
\* as a node, and every data block of a reachable file exists
AllEntriesLive(m, t) ==
    \A R \in {ReachableFrom(m, {RootOf(t)})} :
      /\ \A id \in R : GetNode(m, id).ok
      /\ DataBlocksOf(m, R) \subseteq DOMAIN m

\* C6: when an operation aborts at one of its remote calls, in a state reached
\* by successful operations whose tree is whole, every directory entry
\* reachable from the root still refers to a block that exists and decodes as a
\* node, and no listed file has lost a data block.
C6_AbortKeepsEntriesLive ==
    [][(/\ clean /\ topic.some /\ AllEntriesLive(msgs, topic)
        /\ last'.status = "abort")
       => AllEntriesLive(msgs', topic')]_vars

\* the rejections for a path error: malformed path, segment or entry not
\* found, kind mismatch, name collision on insert, directory full
PathErrors ==
    {"Directories required but not allowed", "Directories not allowed",
     "Directories are required", "Target path must have trailing filename",
     "Paths must start with a '/'", "Directory entry doesn't exist",
     "Tried to get non directory node as directory node",
     "Tried to get non file node as file node",
     "The directory is full", "The file already exists",
     "Destination directory already contains entry with the same name",
     "Must move into a directory", "Can't download directories",
     "Directories must be deleted recursively", "Files cannot be deleted recursively",
     "Cannot delete root directory", "Cannot move root directory"}

\* C7: an operation rejected for a path error, in a state reached by
\* successful operations, has issued no send, edit or delete.
C7_PathErrorBeforeAnyMutation ==
    [][(clean /\ last'.status = "panic" /\ last'.err \in PathErrors)
       => last'.calls = <<>>]_vars

\* the blocks of log m that decode as a node with parent_block_id 0
ParentlessNodes(m) ==
    {id \in DOMAIN m : \E r \in {GetNode(m, id)} : r.ok /\ r.node.parent_block_id = 0}

\* C8: in every log state whose channel topic is set, exactly one node has
\* parent_block_id 0, it is a Directory, and its id is the one in the topic.
C8_OneRootNamedByTopic ==
    topic.some =>
      /\ IsDecimal(topic.text)
      /\ ParentlessNodes(msgs) = {RootOf(topic)}
      /\ GetDirectoryNode(msgs, RootOf(topic)).ok

\* C9: after a successful non-quick rm of a path, in a state reached by
\* successful operations, the path no longer resolves, the directory that
\* listed the target has one entry fewer, and the target with every node and
\* data block of its subtree is gone from the log.
C9_RmRemovesTarget ==
    [][(clean /\ last'.op = "rm" /\ last'.status = "ok" /\ ~last'.quick) =>
        \A sp \in {SplitPath(last'.path, TRUE, FALSE)} :
        \A target \in {Resolve(msgs, topic, last'.path)} :
        \A holder \in {Resolve(msgs, topic, sp.parent)} :
        \A subtree \in {ReachableFrom(msgs, {target.id})} :
          /\ ~Resolve(msgs', topic', last'.path).ok
          /\ holder.ok
          /\ \E after \in {GetDirectoryNode(msgs', holder.id)} :
                after.ok /\ Len(after.node.entries) = Len(holder.node.entries) - 1
          /\ (subtree \cup DataBlocksOf(msgs, subtree)) \cap DOMAIN msgs' = {}]_vars

\* C10: after a successful mv of source to a different destination, in a state
\* reached by successful operations, the source path no longer resolves and
\* destination followed by the source's leaf name resolves to the id the
\* source resolved to, with the node's block list and size unchanged.
C10_MvMovesNode ==
    [][(clean /\ last'.op = "mv" /\ last'.status = "ok" /\ last'.path # last'.path2) =>
        \A sp \in {SplitPath(last'.path, TRUE, FALSE)} :
        \A src \in {Resolve(msgs, topic, last'.path)} :
        \A moved \in {Resolve(msgs', topic', last'.path2 \o sp.leaf)} :
          /\ ~Resolve(msgs', topic', last'.path).ok
          /\ moved.ok /\ moved.id = src.id
          /\ moved.node.blocks = src.node.blocks /\ moved.node.size = src.node.size]_vars

\* the listing of the whole tree: ls without a path
RootListing(m, t) ==
    Only({
      IF ~root.ok THEN ListFail(root.err, <<>>)
      ELSE List(m, 0, <<Slash>>, root.node, 0)
      : root \in {GetDirectoryNode(m, RootOf(t))} })

\* C11: a successful rm with quick set, in a state reached by successful
\* operations, deletes no block: its only remote mutation is one edit of the
\* directory that lists the target; afterwards the listing from the root
\* succeeds and the target is no longer in the tree.
C11_QuickRmOnlyEditsParent ==
    [][(clean /\ last'.op = "rm" /\ last'.quick /\ last'.status = "ok") =>
        \A sp \in {SplitPath(last'.path, TRUE, FALSE)} :
        \A target \in {Resolve(msgs, topic, last'.path)} :
        \A holder \in {Resolve(msgs, topic, sp.parent)} :
          /\ last'.calls = <<[op |-> "edit", id |-> holder.id, ok |-> TRUE]>>
          /\ DOMAIN msgs' = DOMAIN msgs
          /\ RootListing(msgs', topic').ok
          /\ target.id \notin ReachableFrom(msgs', {RootOf(topic')})]_vars

\* C12: ls with a path that traverse resolves, in a tree whose entries are all
\* live, succeeds and lists the node the path resolves to; for the path '/' it
\* prints the listing that ls without a path prints.
C12_LsListsResolvedPath ==
    (last.op = "ls" /\ last.given /\ topic.some /\ AllEntriesLive(msgs, topic)) =>
      \A r \in {Resolve(msgs, topic, last.path)} :
        r.ok =>
          /\ last.status = "ok"
          /\ Len(last.out) >= 1
          /\ last.out[1].kind = r.node.kind /\ last.out[1].size = r.node.size
          /\ last.path = <<Slash>> => last.out = RootListing(msgs, topic).lines

\* the path holds two consecutive '/'
ConsecutiveSlashes(path) ==
    \E i \in 1..(Len(path) - 1) : path[i] = Slash /\ path[i + 1] = Slash

\* C13: an operation given a path with two consecutive '/' is rejected, and
\* creates nothing.
C13_ConsecutiveSlashesRejected ==
    (/\ last.op \in {"ls", "upload", "download", "rm", "mv", "mkdir", "rename"}
     /\ \/ ConsecutiveSlashes(last.path)
        \/ last.op = "mv" /\ ConsecutiveSlashes(last.path2))
    => (last.status = "panic" /\ last.calls = <<>>)

\* C14: mkdir of a path whose parent directory is full or already holds the
\* name is rejected before any remote call; a mkdir that succeeds leaves the
\* path resolving to a new Directory with no entries whose parent_block_id is
\* the parent directory's id, and the parent with exactly one entry more.
C14_MkdirCreatesEmptyDirectory ==
    [][(last'.op = "mkdir") =>
        \A sp \in {SplitPath(last'.path, TRUE, TRUE)} :
        \A parent \in {Resolve(msgs, topic, sp.parent)} :
          /\ (sp.ok /\ parent.ok
              /\ (IsFull(parent.node) \/ ContainsEntry(parent.node, sp.leaf)))
             => (last'.status = "panic" /\ last'.calls = <<>> /\ msgs' = msgs)
          /\ last'.status = "ok" =>
               /\ \E made \in {Resolve(msgs', topic', last'.path)} :
                     /\ made.ok
                     /\ made.id \notin DOMAIN msgs
                     /\ made.node.kind = Directory
                     /\ made.node.size = 0 /\ Len(made.node.entries) = 0
                     /\ made.node.parent_block_id = parent.id
               /\ \E after \in {GetDirectoryNode(msgs', parent.id)} :
                     after.ok /\ Len(after.node.entries) = Len(parent.node.entries) + 1]_vars

\* C15: after a successful rename(old, new) to a name other than the old one,
\* in a state reached by successful operations, the containing directory has
\* as many entries as before, old's parent prefix followed by new resolves to
\* the id old resolved to, old no longer resolves, and the operation issued
\* exactly one edit, of the containing directory.
C15_RenameKeepsNode ==
    [][(clean /\ last'.op = "rename" /\ last'.status = "ok") =>
        \A sp \in {SplitPath(last'.path, TRUE, FALSE)} :
        \A dir \in {Resolve(msgs, topic, sp.parent)} :
        \A target \in {Resolve(msgs, topic, last'.path)} :
          last'.path2 # sp.leaf =>
            /\ last'.calls = <<[op |-> "edit", id |-> dir.id, ok |-> TRUE]>>
            /\ \E after \in {GetDirectoryNode(msgs', dir.id)} :
                  after.ok /\ Len(after.node.entries) = Len(dir.node.entries)
            /\ \E renamed \in {Resolve(msgs', topic', sp.parent \o last'.path2)} :
                  renamed.ok /\ target.ok /\ renamed.id = target.id
            /\ ~Resolve(msgs', topic', last'.path).ok]_vars

\* the number of entries serialized in a directory payload, counted by
\* walking the name_len fields; -1 when the payload ends inside an entry
RECURSIVE PayloadEntryCount(_)
PayloadEntryCount(content) ==
    IF Len(content) = 0 THEN 0
    ELSE IF Len(content) < NAME_LEN_SIZE THEN -1
    ELSE Only({
      IF Len(content) < NAME_LEN_SIZE + name_len + BLOCK_INDEX_SIZE THEN -1
      ELSE Only({
        IF rest < 0 THEN -1 ELSE rest + 1
        : rest \in {PayloadEntryCount(
                      SubSeq(content, NAME_LEN_SIZE + name_len + BLOCK_INDEX_SIZE + 1,
                             Len(content)))} })
      : name_len \in {U64FromLE(SubSeq(content, 1, NAME_LEN_SIZE))} })

\* the stored blocks whose kind field reads Directory
StoredDirectories(m) ==
    {id \in DOMAIN m : Len(m[id]) >= HeaderSize /\ HeaderOf(m[id]).kind = Directory}

\* C16: in every log state, the size field of each stored Directory node
\* equals the number of entries serialized in its payload.
C16_DirectorySizeIsEntryCount ==
    \A id \in StoredDirectories(msgs) :
      \A h \in {HeaderOf(msgs[id])} : h.size = PayloadEntryCount(h.content)

\* a directory that went through a push and a delete: the root holds one
\* entry right after a successful rm
C16_Witness ==
    /\ last.op = "rm" /\ last.status = "ok"
    /\ topic.some /\ RootOf(topic) \in StoredDirectories(msgs)
    /\ \E h \in {HeaderOf(msgs[RootOf(topic)])} :
          h.size = 1 /\ PayloadEntryCount(h.content) = 1

\* a name without the one trailing '/' that marks a directory entry
Stem(name) == IF EndsWithSlash(name) THEN SubSeq(name, 1, Len(name) - 1) ELSE name

\* C17: after any sequence of successful operations, no directory holds an
\* entry whose name is empty or has a '/' in it, the trailing '/' that marks
\* a directory entry aside.
C17_NamesNonEmptyWithoutSlash ==
    clean =>
      \A id \in StoredDirectories(msgs) :
        \A e \in EntriesAt(msgs, id) :
          /\ Len(Stem(e.name)) > 0
          /\ \A i \in 1..Len(Stem(e.name)) : Stem(e.name)[i] # Slash

\* C18: for every valid node N, directory or file, non-ASCII entry names
\* included, Node::from_bytes of what Node::to_bytes made of N succeeds and
\* gives back N: same kind, size, parent_block_id, entries and block ids.
C18_NodeRoundTrip ==
    codec.stage = "back" => (codec.back.ok /\ codec.back.node = codec.node)

\* the entry name an operation asks for, the directory it goes into and the
\* path it is then found at: for mkdir and upload the leaf of the path, for
\* rename the new name next to the old one
AskedName(l) ==
    Only({[name |-> IF l.op = "rename" THEN l.path2 ELSE sp.leaf,
           parent |-> sp.parent,
           path |-> IF l.op = "rename" THEN sp.parent \o l.path2 ELSE l.path,
           ok |-> sp.ok /\ (l.op = "rename" => EndsWithSlash(l.path) = EndsWithSlash(l.path2))]
          : sp \in {SplitPath(l.path, l.op # "upload", l.op = "mkdir")}})

\* C19: an entry name of exactly NAME_LEN bytes is created by mkdir, by
\* upload and by rename, in a directory that holds no other entry, and the
\* path then resolves; a name of NAME_LEN + 1 bytes makes each of them fail
\* with every stored block left as it was, so that no directory gets it.
C19_NameLengthBoundary ==
    [][(clean /\ last'.op \in {"mkdir", "upload", "rename"}) =>
        \A asked \in {AskedName(last')} :
        \A dir \in {Resolve(msgs, topic, asked.parent)} :
          /\ (/\ asked.ok /\ Len(asked.name) = NAME_LEN
              /\ dir.ok
              /\ IF last'.op = "rename"
                 THEN Len(dir.node.entries) = 1 /\ Resolve(msgs, topic, last'.path).ok
                 ELSE Len(dir.node.entries) = 0)
             => (last'.status = "ok" /\ Resolve(msgs', topic', asked.path).ok)
          /\ (asked.ok /\ Len(asked.name) > NAME_LEN)
             => (/\ last'.status # "ok"
                 /\ \A id \in DOMAIN msgs : id \in DOMAIN msgs' /\ msgs'[id] = msgs[id])]_vars

\* C20: an upload of a source of MAX_FILE_SIZE + 1 bytes fails without a
\* remote call and leaves the log as it was; an upload of exactly
\* MAX_FILE_SIZE bytes to a free name in a directory with room succeeds,
\* its file node holds BLOCK_COUNT block ids, reports MAX_FILE_SIZE bytes
\* and is stored in at most BLOCK_SIZE bytes; and a download of such a file
\* with the key of its upload succeeds and writes the source's bytes.
C20_MaxFileSizeBoundary ==
    /\ [][(last'.op = "upload") =>
           /\ Len(Source(last'.source).bytes) = MAX_FILE_SIZE + 1
              => (last'.status = "panic" /\ last'.calls = <<>> /\ msgs' = msgs)
           /\ \A sp \in {SplitPath(last'.path, FALSE, FALSE)} :
              \A dir \in {Resolve(msgs, topic, sp.parent)} :
                (/\ Len(Source(last'.source).bytes) = MAX_FILE_SIZE
                 /\ sp.ok /\ dir.ok
                 /\ ~IsFull(dir.node) /\ ~ContainsEntry(dir.node, sp.leaf))
                => /\ last'.status = "ok"
                   /\ \E file \in {Resolve(msgs', topic', last'.path)} :
                         /\ file.ok /\ file.node.kind = File
                         /\ file.node.size = MAX_FILE_SIZE
                         /\ Len(file.node.blocks) = BLOCK_COUNT
                         /\ Len(msgs'[file.id]) <= BLOCK_SIZE]_vars
    /\ [](last.op = "download" =>
            \A src \in {Resolve(msgs, topic, last.path)} :
              (/\ src.ok /\ src.id \in DOMAIN uploaded
               /\ Len(Source(uploaded[src.id].source).bytes) = MAX_FILE_SIZE
               /\ SameCypherKey(uploaded[src.id].key, last.key))
              => (last.status = "ok" /\ dest.bytes = Source(uploaded[src.id].source).bytes))

\* a file of MAX_FILE_SIZE bytes has just been uploaded into BLOCK_COUNT
\* data blocks
C20_Witness ==
    /\ last.op = "upload" /\ last.status = "ok"
    /\ Len(Source(last.source).bytes) = MAX_FILE_SIZE
    /\ \E file \in {Resolve(msgs, topic, last.path)} :
          file.ok /\ Len(file.node.blocks) = BLOCK_COUNT /\ file.node.size = MAX_FILE_SIZE

\* the 12-byte nonce of counter value n: four zero bytes, then n as u64 LE
NonceOfCounter(n) == <<0, 0, 0, 0>> \o U64ToLE(n)

\* the plaintext of chunk i (1-based) of a source of the given bytes
ChunkOf(bytes, i) ==
    SubSeq(bytes, (i - 1) * BLOCK_SIZE + 1, Min(i * BLOCK_SIZE, Len(bytes)))

\* C21: the counter restarts at 0 in every upload and every download and
\* advances by one per chunk: the i-th data block (0-based) of every
\* uploaded file is what encrypting the i-th chunk of its source under
\* counter value i gives, whichever upload wrote it, and a successful
\* download has written the blocks decrypted under counter values 0, 1, ...
\* in file-node order.
C21_NonceCounterPerChunk ==
    /\ \A id \in DOMAIN uploaded \cap DOMAIN msgs :
         \A f \in {GetFileNode(msgs, id)} :
           f.ok =>
             \A i \in 1..Len(f.node.blocks) :
               /\ f.node.blocks[i] \in DOMAIN msgs
               /\ msgs[f.node.blocks[i]] =
                     Encrypt(SubSeq(Key(uploaded[id].key), 1, KEY_LEN),
                             NonceOfCounter(i - 1),
                             ChunkOf(Source(uploaded[id].source).bytes, i))
    /\ (last.op = "download" /\ last.status = "ok") =>
         \A src \in {Resolve(msgs, topic, last.path)} :
           /\ src.ok
           /\ dest.bytes =
                Flatten([i \in 1..Len(src.node.blocks) |->
                           Decrypt(SubSeq(Key(last.key), 1, KEY_LEN),
                                   NonceOfCounter(i - 1),
                                   msgs[src.node.blocks[i]]).plain])

\* a file of more than one chunk has been downloaded
C21_Witness ==
    /\ last.op = "download" /\ last.status = "ok"
    /\ \E src \in {Resolve(msgs, topic, last.path)} :
          src.ok /\ src.id \in DOMAIN uploaded /\ Len(src.node.blocks) = 2
    /\ Len(dest.bytes) = BLOCK_SIZE + 1

\* C22: a startup that finds a u64 in the topic issues no remote mutation
\* and works with that value as root id, and the topic never changes once
\* set; a successful startup that finds no topic sends exactly one node, an
\* empty Directory with parent_block_id 0, and writes its id in decimal to
\* the topic, so that the startup of every later command creates nothing.
C22_StartupIdempotent ==
    /\ [][(last'.op = "startup" /\ last'.status = "ok") =>
           /\ ~topic.some
           /\ last'.calls = <<[op |-> "send", id |-> nextId, ok |-> TRUE],
                              [op |-> "topic", id |-> 0, ok |-> TRUE]>>
           /\ DOMAIN msgs' = DOMAIN msgs \cup {nextId}
           /\ \A id \in DOMAIN msgs : msgs'[id] = msgs[id]
           /\ NodeFromBytes(msgs'[nextId]) = [ok |-> TRUE, node |-> NewNode(Directory, 0)]
           /\ topic' = [some |-> TRUE, text |-> U64ToString(nextId)]
           /\ RootOf(topic') = nextId]_vars
    /\ [](topic.some =>
            \A c \in {Setup(Ctx(0))} :
              /\ c.status = "run" /\ c.calls = <<>>
              /\ c.msgs = msgs /\ c.nextId = nextId /\ c.topic = topic
              /\ RootNodeId(c) = RootOf(topic))
    /\ [][topic.some => topic' = topic]_vars

\* a command has run on the root that a second startup created, the first
\* one having failed to write the topic
C22_Witness ==
    /\ topic.some /\ RootOf(topic) = 2
    /\ last.op = "mkdir" /\ last.status = "ok"

\* C23: a directory that passes the 'not full' check and is given one more
\* entry is written within BLOCK_SIZE bytes, the names being at most
\* NAME_LEN bytes; checked where it is tightest, with every name, the new
\* one included, of exactly NAME_LEN bytes: mkdir and upload then succeed and
\* the directory is stored with the new entry.
C23_NotFullDirectoryFitsBlock ==
    [][(last'.op \in {"mkdir", "upload"}) =>
        \A asked \in {AskedName(last')} :
        \A dir \in {Resolve(msgs, topic, asked.parent)} :
          (/\ asked.ok /\ dir.ok
           /\ ~IsFull(dir.node) /\ ~ContainsEntry(dir.node, asked.name)
           /\ Len(asked.name) = NAME_LEN
           /\ \A i \in 1..Len(dir.node.entries) : Len(dir.node.entries[i].name) = NAME_LEN)
          => /\ last'.status = "ok"
             /\ Len(msgs'[dir.id]) <= BLOCK_SIZE
             /\ PayloadEntryCount(HeaderOf(msgs'[dir.id]).content)
                  = Len(dir.node.entries) + 1]_vars

\* ceil(n / BLOCK_SIZE)
ChunkCount(n) == (n + BLOCK_SIZE - 1) \div BLOCK_SIZE

\* C24: a successful upload of a source of S bytes stores a file node whose
\* size field is S and which lists ceil(S / BLOCK_SIZE) data blocks, in the
\* order upload sent them; every block but the last holds BLOCK_SIZE bytes
\* of plaintext (and its tag), the last one the rest.
C24_UploadStoresChunksInOrder ==
    [][(last'.op = "upload" /\ last'.status = "ok") =>
        \A S \in {Len(Source(last'.source).bytes)} :
        \E file \in {Resolve(msgs', topic', last'.path)} :
          /\ file.ok /\ file.node.kind = File
          /\ file.id = last'.calls[1].id
          /\ file.node.size = S
          /\ Len(file.node.blocks) = ChunkCount(S)
          /\ \A i \in 1..ChunkCount(S) :
                /\ last'.calls[i + 1] = [op |-> "send", id |-> file.node.blocks[i], ok |-> TRUE]
                /\ file.node.blocks[i] \notin DOMAIN msgs
                /\ Len(msgs'[file.node.blocks[i]]) - TAG_LEN
                     = IF i < ChunkCount(S) THEN BLOCK_SIZE ELSE S - (i - 1) * BLOCK_SIZE]_vars

\* a source of BLOCK_SIZE + 1 bytes has been uploaded into two blocks
C24_Witness ==
    /\ last.op = "upload" /\ last.status = "ok"
    /\ Len(Source(last.source).bytes) = BLOCK_SIZE + 1
    /\ \E file \in {Resolve(msgs, topic, last.path)} :
          file.ok /\ Len(file.node.blocks) = 2 /\ file.node.size = BLOCK_SIZE + 1

\* C25: Node::from_bytes of a block whose kind is File returns no node when
\* the payload after the header has a length that is no multiple of
\* BLOCK_INDEX_SIZE, and none when the declared size exceeds MAX_FILE_SIZE.
C25_MalformedFileBlockRejected ==
    (codec.stage = "read" /\ Len(codec.bytes) >= HeaderSize) =>
      \A h \in {HeaderOf(codec.bytes)} :
        (h.kind = File /\ (Len(h.content) % BLOCK_INDEX_SIZE # 0 \/ h.size > MAX_FILE_SIZE))
        => ~codec.back.ok

\* C26: after any sequence of successful operations, the name of every
\* directory entry ends with '/' exactly when the node the entry refers to
\* is a Directory.
C26_TrailingSlashIffDirectory ==
    clean =>
      \A id \in StoredDirectories(msgs) :
        \A e \in EntriesAt(msgs, id) :
          e.block \in DOMAIN msgs =>
            \A n \in {GetNode(msgs, e.block)} :
              n.ok /\ (EndsWithSlash(e.name) <=> n.node.kind = Directory)

\* a directory has been renamed next to a file
C26_Witness ==
    /\ clean /\ last.op = "rename" /\ last.status = "ok"
    /\ last.path = PA /\ last.path2 = NB
    /\ \E d \in {Resolve(msgs, topic, PB)} : d.ok /\ d.node.kind = Directory
    /\ \E f \in {Resolve(msgs, topic, PF)} : f.ok /\ f.node.kind = File

\* C27: a download whose source path does not resolve, or resolves to a
\* directory, leaves the local destination file as it was: neither created
\* nor truncated.
C27_RejectedDownloadKeepsDestination ==
    [][(last'.op = "download") =>
        \A src \in {Resolve(msgs, topic, last'.path)} :
          (~src.ok \/ src.node.kind = Directory)
          => (last'.status = "panic" /\ dest' = dest)]_vars

\* the ids the directory at id leads to through one entry or more
DescendantsOf(m, id) == ReachableFrom(m, {e.block : e \in EntriesAt(m, id)})

\* C28: after any sequence of successful operations the directories
\* reachable from the root form a tree: none is among its own descendants,
\* and no node is referred to by two reachable entries, so that a walk from
\* the root ends and reads every reachable node once.
C28_ReachableGraphIsTree ==
    (clean /\ topic.some) =>
      /\ \A id \in ReachableFrom(msgs, {RootOf(topic)}) : id \notin DescendantsOf(msgs, id)
      /\ \A e1, e2 \in ReachableEntries(msgs, RootOf(topic)) :
            e1.block = e2.block => e1 = e2

\* C29: a successful mv, in a state reached by successful operations, leaves
\* every node reachable from the root that was reachable before it.
C29_MvKeepsNodesReachable ==
    [][(clean /\ last'.op = "mv" /\ last'.status = "ok") =>
        ReachableFrom(msgs, {RootOf(topic)}) \subseteq ReachableFrom(msgs', {RootOf(topic')})]_vars

\* path p is path q or leads through it
PassesThrough(p, q) == Len(q) <= Len(p) /\ SubSeq(p, 1, Len(q)) = q

\* the paths whose resolution is compared across an operation
FramePaths == {PRoot, PA, PB, PAB, PF, PG, PAF}

\* C30: a successful rm, mv or rename, in a state reached by successful
\* operations, leaves every path that resolved before it and does not pass
\* through its target resolving to the same BlockId.
C30_OtherPathsKeepResolving ==
    [][(clean /\ last'.op \in {"rm", "mv", "rename"} /\ last'.status = "ok") =>
        \A p \in FramePaths :
          \A before \in {Resolve(msgs, topic, p)} :
            (before.ok /\ ~PassesThrough(p, last'.path))
            => \E after \in {Resolve(msgs', topic', p)} :
                  after.ok /\ after.id = before.id]_vars

\* C31: an upload or mkdir that is rejected for its arguments, the leaf name
\* being longer than NAME_LEN bytes or the upload's key shorter than KEY_LEN
\* bytes, leaves the log as it was: no block is created and none is changed.
C31_RejectedArgumentCreatesNoBlock ==
    [][(last'.op \in {"mkdir", "upload"} /\ last'.status = "panic") =>
        \A asked \in {AskedName(last')} :
          (\/ asked.ok /\ Len(asked.name) > NAME_LEN
           \/ last'.op = "upload" /\ Len(Key(last'.key)) < KEY_LEN)
          => msgs' = msgs]_vars

====
